---- MODULE Spec2Model ----
(***************************************************************************)
(* scholar_graph.py: the co-author graph builder (Scholarnet), the DBLP    *)
(* profile resolver (find_dblp_profile_by_name) and the command line       *)
(* driver (cli).                                                           *)
(*                                                                         *)
(* Text is modelled as a sequence of one-character strings, so that strip, *)
(* split, startswith, substring search and the ordering used by sorted()   *)
(* are computed and not assumed.  A parsed HTML document (BeautifulSoup)   *)
(* is a record [title, items]: on a profile page every item is an          *)
(* li.entry, given as the sequence of the texts of its author spans; on a  *)
(* search page every item is an li with its class and its anchors.         *)
(***************************************************************************)
EXTENDS Integers, Sequences, FiniteSets, TLC

VARIABLES
    pc,           \* position of the run: start, resolved, constructed, extracted, done, exit1, raised
    query,        \* args.query
    dblp_url,     \* the resolved locator / Scholarnet.dblp_url
    soup,         \* the document parsed by the last request
    main_author,  \* Scholarnet.main_author
    graph,        \* Scholarnet.graph (networkx.Graph): node and edge attribute maps
    calls,        \* the collaborator invocations made so far, in order
    stderr,       \* diagnostics printed
    stdout,       \* messages printed
    status,       \* exit status of the process, -1 while it runs
    artifact      \* what show() saved

vars == <<pc, query, dblp_url, soup, main_author, graph, calls, stderr, stdout, status, artifact>>

----------------------------------------------------------------------------
(* Bounds *)

MaxPapers == 2        \* li.entry items on a profile page
MaxReusePapers == 1   \* li.entry items per page when one instance is rebuilt
MaxBuilds == 2        \* extract_graph calls on one instance
MaxColorPapers == 12  \* li.entry items on a page of the edge colour runs
MaxResults == 2       \* li items on a search page

----------------------------------------------------------------------------
(* Text *)

\* Python's None: a value different from every text.
None == <<"None">>

\* The test `x == ""`, which lets None through.
FalsyEmptyOnly(x) == x = <<>>

\* Truth value of `not x` for x a str or None.
Falsy(x) == x = None \/ x = <<>>

\* Code points of the characters that names are made of (str comparison).
Ord(c) ==
    CASE c = " " -> 32
      [] c = "A" -> 65
      [] c = "B" -> 66
      [] c = "C" -> 67
      [] OTHER -> 127

IsSpace(c) == c \in {" ", "\t", "\n"}

RECURSIVE lstrip(_)
lstrip(s) == IF s # <<>> /\ IsSpace(Head(s)) THEN lstrip(Tail(s)) ELSE s

RECURSIVE rstrip(_)
rstrip(s) ==
    IF s # <<>> /\ IsSpace(s[Len(s)]) THEN rstrip(SubSeq(s, 1, Len(s) - 1)) ELSE s

\* str.strip()
strip(s) == rstrip(lstrip(s))

\* s.split("::")[0]
RECURSIVE split0(_)
split0(s) ==
    IF Len(s) < 2 THEN s
    ELSE IF s[1] = ":" /\ s[2] = ":" THEN <<>>
    ELSE <<Head(s)>> \o split0(Tail(s))

\* s.startswith(p)
startswith(s, p) == Len(s) >= Len(p) /\ SubSeq(s, 1, Len(p)) = p

\* p in s, re.search(p, s) for a literal p
Contains(s, p) == \E i \in 1..(Len(s) - Len(p) + 1) : SubSeq(s, i, i + Len(p) - 1) = p

\* a < b for two str
RECURSIVE StrLess(_, _)
StrLess(a, b) ==
    IF b = <<>> THEN FALSE
    ELSE IF a = <<>> THEN TRUE
    ELSE IF Head(a) = Head(b) THEN StrLess(Tail(a), Tail(b))
    ELSE Ord(Head(a)) < Ord(Head(b))

\* tuple(sorted((x, y))) without the ordering: the pair as met.
sorted2Unordered(x, y) == <<x, y>>

\* tuple(sorted((x, y)))
sorted2(x, y) == IF StrLess(y, x) THEN <<y, x>> ELSE <<x, y>>

\* Scholarnet.author_short: the first character of every whitespace-separated word
RECURSIVE Initials(_, _)
Initials(s, i) ==
    IF i > Len(s) THEN <<>>
    ELSE IF ~IsSpace(s[i]) /\ (i = 1 \/ IsSpace(s[i - 1]))
         THEN <<s[i]>> \o Initials(s, i + 1)
         ELSE Initials(s, i + 1)

author_short(full_name) == Initials(full_name, 1)

----------------------------------------------------------------------------
(* dict / defaultdict(int): the entries <<key, value>> in insertion order *)

HasKey(d, k) == \E i \in 1..Len(d) : d[i][1] = k

\* d[k] += 1
Incr(d, k) ==
    IF HasKey(d, k)
    THEN [i \in 1..Len(d) |-> IF d[i][1] = k THEN <<k, d[i][2] + 1>> ELSE d[i]]
    ELSE Append(d, <<k, 1>>)

RECURSIVE IncrAll(_, _)
IncrAll(d, keys) == IF keys = <<>> THEN d ELSE IncrAll(Incr(d, Head(keys)), Tail(keys))

\* dict.update: the keys of new override those of old
Update(old, new) ==
    [k \in (DOMAIN old) \cup (DOMAIN new) |-> IF k \in DOMAIN new THEN new[k] ELSE old[k]]

Put(f, k, v) == [x \in (DOMAIN f) \cup {k} |-> IF x = k THEN v ELSE f[x]]

----------------------------------------------------------------------------
(* networkx.Graph *)

EmptyGraph == [node |-> <<>>, edge |-> <<>>]

add_node(G, n, attrs) ==
    [G EXCEPT !.node = Put(G.node, n,
        Update(IF n \in DOMAIN G.node THEN G.node[n] ELSE <<>>, attrs))]

\* An undirected edge is keyed by the set of its endpoints; a self-loop by {u}.
add_edge(G, u, v, attrs) ==
    LET G1 == IF u \in DOMAIN G.node THEN G ELSE add_node(G, u, <<>>)
        G2 == IF v \in DOMAIN G1.node THEN G1 ELSE add_node(G1, v, <<>>)
        e  == {u, v}
    IN [G2 EXCEPT !.edge = Put(G2.edge, e,
           Update(IF e \in DOMAIN G2.edge THEN G2.edge[e] ELSE <<>>, attrs))]

----------------------------------------------------------------------------
(* Colours *)

HexDigits == <<"0", "1", "2", "3", "4", "5", "6", "7", "8", "9",
               "a", "b", "c", "d", "e", "f">>

HexVal(c) ==
    CASE c = "A" -> 10 [] c = "B" -> 11 [] c = "C" -> 12
      [] c = "D" -> 13 [] c = "E" -> 14 [] c = "F" -> 15
      [] OTHER -> (CHOOSE i \in 1..16 : HexDigits[i] = c) - 1

\* The channels (0..255) of a colour "#rrggbb"
Channels(hex) == [i \in 1..3 |-> 16 * HexVal(hex[2 * i]) + HexVal(hex[2 * i + 1])]

\* mcolors.to_hex of channels given in 255ths
to_hex(ch) ==
    <<"#", HexDigits[(ch[1] \div 16) + 1], HexDigits[(ch[1] % 16) + 1],
           HexDigits[(ch[2] \div 16) + 1], HexDigits[(ch[2] % 16) + 1],
           HexDigits[(ch[3] \div 16) + 1], HexDigits[(ch[3] % 16) + 1]>>

\* round(num / den), ties to even
Round(num, den) ==
    LET q == num \div den
        r == num % den
    IN IF 2 * r > den THEN q + 1
       ELSE IF 2 * r < den THEN q
       ELSE IF q % 2 = 0 THEN q ELSE q + 1

BaseColor == <<"#", "8", "B", "A", "4", "D", "A">>
NodeRed == "red"
NodeBlue == "#1f78b4"

\* The edge colour with norm = w / 10, not capped at 1.
EdgeColorUncapped(w) ==
    LET base == Channels(BaseColor)
        f == IF 100 - 7 * w < 0 THEN 0 ELSE 100 - 7 * w
    IN to_hex([i \in 1..3 |-> Round(base[i] * f, 100)])

\* norm = min(w / 10, 1.0); each channel c * (1 - 0.7 * norm); to_hex
EdgeColor(w) ==
    LET base == Channels(BaseColor)
        norm10 == IF w < 10 THEN w ELSE 10
    IN to_hex([i \in 1..3 |-> Round(base[i] * (100 - 7 * norm10), 100)])

----------------------------------------------------------------------------
(* Scholarnet.extract_graph *)

Author == <<"A", "u", "t", "h", "o", "r">>

\* authors = [a.text.strip() for a in paper.find_all("span", itemprop="author")]
Authors(paper) == [i \in 1..Len(paper) |-> strip(paper[i])]

\* The pairs of the loops over i and j > i, in the order they are met.
RECURSIVE PairsFrom(_, _, _)
PairsFrom(authors, i, j) ==
    IF i > Len(authors) THEN <<>>
    ELSE IF j > Len(authors) THEN PairsFrom(authors, i + 1, i + 2)
    ELSE <<sorted2(authors[i], authors[j])>> \o PairsFrom(authors, i, j + 1)

Pairs(authors) == PairsFrom(authors, 1, 2)

\* The loop over papers: acc is [author_papers, edge_weights].
RECURSIVE CountLoop(_, _)
CountLoop(acc, papers) ==
    IF papers = <<>> THEN acc
    ELSE LET authors == Authors(Head(papers))
         IN IF authors = <<>>
            THEN CountLoop(acc, Tail(papers))
            ELSE CountLoop([author_papers |-> IncrAll(acc.author_papers, authors),
                            edge_weights  |-> IncrAll(acc.edge_weights, Pairs(authors))],
                           Tail(papers))

Counts(papers) == CountLoop([author_papers |-> <<>>, edge_weights |-> <<>>], papers)

\* self.main_author
MainAuthor(doc) == IF doc.title = None THEN Author ELSE strip(split0(doc.title))

\* is_main with every author taken for the main author.
IsMainAlways(author, main) == TRUE

\* is_main = (author == self.main_author)
IsMain(author, main) == author = main

\* The attributes given to add_node.  The tooltip f-string is kept by its parts.
NodeAttrs(author, count, main) ==
    LET is_main == IsMain(author, main)
    IN [label |-> author_short(author),
        title |-> IF is_main
                  THEN [author |-> author, text |-> "Total Papers", of |-> <<>>, count |-> count]
                  ELSE [author |-> author, text |-> "Co-authored with", of |-> main, count |-> count],
        size  |-> 10 + count * 2,
        color |-> IF is_main THEN NodeRed ELSE NodeBlue]

RECURSIVE AddNodes(_, _, _)
AddNodes(G, author_papers, main) ==
    IF author_papers = <<>> THEN G
    ELSE LET e == Head(author_papers)
         IN AddNodes(add_node(G, e[1], NodeAttrs(e[1], e[2], main)), Tail(author_papers), main)

RECURSIVE AddEdges(_, _)
AddEdges(G, edge_weights) ==
    IF edge_weights = <<>> THEN G
    ELSE LET e == Head(edge_weights)
         IN AddEdges(add_edge(G, e[1][1], e[1][2], [weight |-> e[2], color |-> EdgeColor(e[2])]),
                     Tail(edge_weights))

\* The graph after extract_graph has parsed doc, starting from self.graph = G.
BuildGraph(G, doc) ==
    LET c == Counts(doc.items)
    IN AddEdges(AddNodes(G, c.author_papers, MainAuthor(doc)), c.edge_weights)

----------------------------------------------------------------------------
(* find_dblp_profile_by_name *)

EntryAuthor == "entry author"
Pid == <<"/", "p", "i", "d", "/">>

\* Every anchor of the document, in document order.
RECURSIVE Anchors(_)
Anchors(items) == IF items = <<>> THEN <<>> ELSE Head(items).links \o Anchors(Tail(items))

HasHref(a) == a.has_href
IsPidLink(a) == a.has_href /\ Contains(a.href, Pid)

\* soup.find("li", class_=...) taking the last such item.
LastEntryAuthor(items) ==
    LET lis == {i \in 1..Len(items) : items[i].cls = EntryAuthor}
    IN IF lis = {} THEN 0 ELSE CHOOSE i \in lis : \A j \in lis : j <= i

\* soup.find("li", class_="entry author"): the index of the first such item, 0 for None
FirstEntryAuthor(items) ==
    LET lis == {i \in 1..Len(items) : items[i].cls = EntryAuthor}
    IN IF lis = {} THEN 0 ELSE CHOOSE i \in lis : \A j \in lis : i <= j

find_dblp_profile_by_name(doc) ==
    LET li    == FirstEntryAuthor(doc.items)
        a     == IF li = 0 THEN <<>> ELSE SelectSeq(doc.items[li].links, HasHref)
        a_any == SelectSeq(Anchors(doc.items), IsPidLink)
    IN IF li # 0 /\ a # <<>> /\ Contains(Head(a).href, Pid) THEN Head(a).href
       ELSE IF a_any # <<>> THEN Head(a_any).href
       ELSE None

----------------------------------------------------------------------------
(* Inputs *)

SeqsUpTo(S, n) == UNION {[1..k -> S] : k \in 0..n}

tA  == <<"A">>
tA2 == <<" ", "A", " ">>
tB  == <<"B">>
tC  == <<"C">>

\* The author lists of an li.entry: none, one, several, a repeated name, padded text.
Rosters ==
    {<<>>, <<tC>>, <<tA, tB>>, <<tB, tA2>>, <<tB, tC>>, <<tA, tB, tC>>, <<tA, tA>>, <<tA, tB, tA>>}

\* Page titles: no title tag, "A :: dblp", "B".
TitleA == <<"A", " ", ":", ":", " ", "d", "b", "l", "p">>
Titles == {None, TitleA, <<"B">>}

ProfilePages(n, rosters, titles) ==
    {[title |-> t, items |-> p] : t \in titles, p \in SeqsUpTo(rosters, n)}

Pages == ProfilePages(MaxPapers, Rosters, Titles)
FewPages == ProfilePages(MaxReusePapers, Rosters, Titles)
ColorPages == ProfilePages(MaxColorPapers, {<<tA, tB>>, <<tB, tC>>}, {TitleA})

Url1   == <<"h", "t", "t", "p", "s", ":", "/", "/", "d", "/", "p", "i", "d", "/", "1">>
Url2   == <<"h", "t", "t", "p", "s", ":", "/", "/", "d", "/", "p", "i", "d", "/", "2">>
UrlFaq == <<"h", "t", "t", "p", "s", ":", "/", "/", "d", "/", "f", "a", "q">>

a1   == [has_href |-> TRUE, href |-> Url1]
a2   == [has_href |-> TRUE, href |-> Url2]
aFaq == [has_href |-> TRUE, href |-> UrlFaq]
aNo  == [has_href |-> FALSE, href |-> <<>>]

LinkLists == {<<>>, <<a1>>, <<a2>>, <<aFaq>>, <<aFaq, a1>>, <<aNo, a2>>}

SearchPages ==
    {[title |-> None, items |-> p] :
        p \in SeqsUpTo({[cls |-> c, links |-> l] : c \in {EntryAuthor, "entry"}, l \in LinkLists},
                       MaxResults)}

\* args.query: a profile URL, a name, a name that begins with "http".
Queries == {Url1, <<"Z", " ", "K">>, <<"h", "t", "t", "p", "Z">>}

Http == <<"h", "t", "t", "p">>
Out == "research_network.html"
EmptyDoc == [title |-> None, items |-> <<>>]

----------------------------------------------------------------------------
(* cli and the methods of Scholarnet *)

\* The test with receiver and argument exchanged: "http".startswith(args.query).
LooksLikeUrlSwapped(q) == startswith(Http, q)

\* args.query.startswith("http")
LooksLikeUrl(q) == startswith(q, Http)

\* cli: "Resolve query to a DBLP URL".  requests.get may raise in the search.
Resolve ==
    /\ pc = "start"
    /\ IF LooksLikeUrl(query)
       THEN /\ dblp_url' = query
            /\ pc' = "resolved"
            /\ UNCHANGED <<soup, calls, stderr, status>>
       ELSE \/ /\ calls' = Append(calls, "search")
               /\ pc' = "raised"
               /\ status' = 1
               /\ stderr' = Append(stderr, <<"Traceback">>)
               /\ UNCHANGED <<soup, dblp_url>>
            \/ \E doc \in SearchPages :
                 /\ calls' = Append(calls, "search")
                 /\ soup' = doc
                 /\ dblp_url' = find_dblp_profile_by_name(doc)
                 /\ IF Falsy(dblp_url')
                    THEN /\ stderr' = Append(stderr, <<"Could not find a DBLP profile for ", query>>)
                         /\ status' = 1
                         /\ pc' = "exit1"
                    ELSE /\ pc' = "resolved"
                         /\ UNCHANGED <<stderr, status>>
    /\ UNCHANGED <<query, main_author, graph, stdout, artifact>>

\* Scholarnet.__init__
Construct ==
    /\ pc = "resolved"
    /\ graph' = EmptyGraph
    /\ main_author' = None
    /\ pc' = "constructed"
    /\ UNCHANGED <<query, dblp_url, soup, calls, stderr, stdout, status, artifact>>

\* One call of extract_graph on the instance: the request raises, or the page is
\* parsed and the graph is built into self.graph.
ExtractGraphCall(pages) ==
    /\ \/ /\ calls' = Append(calls, "fetch")
          /\ pc' = "raised"
          /\ status' = 1
          /\ stderr' = Append(stderr, <<"Traceback">>)
          /\ UNCHANGED <<soup, main_author, graph>>
       \/ \E doc \in pages :
            /\ calls' = calls \o <<"fetch", "build">>
            /\ soup' = doc
            /\ main_author' = MainAuthor(doc)
            /\ graph' = BuildGraph(graph, doc)
            /\ pc' = "extracted"
            /\ UNCHANGED <<stderr, status>>
    /\ UNCHANGED <<query, dblp_url, stdout, artifact>>

\* net.extract_graph() as cli calls it: once, right after the construction.
ExtractGraph(pages) == pc = "constructed" /\ ExtractGraphCall(pages)

NumBuilds == Cardinality({i \in 1..Len(calls) : calls[i] = "fetch"})

\* extract_graph called again on an instance that has been built.
ExtractGraphAgain(pages) ==
    /\ pc = "extracted"
    /\ NumBuilds < MaxBuilds
    /\ ExtractGraphCall(pages)

\* Scholarnet.show and the last print of cli
Show ==
    /\ pc = "extracted"
    /\ artifact' = [path |-> Out, graph |-> graph]
    /\ calls' = Append(calls, "render")
    /\ stdout' = Append(stdout, <<"Saved interactive graph to: ", Out>>)
    /\ status' = 0
    /\ pc' = "done"
    /\ UNCHANGED <<query, dblp_url, soup, main_author, graph, stderr>>

NoQuery == <<>>

\* A Scholarnet just constructed for a profile URL.
Init ==
    /\ pc = "constructed"
    /\ query = NoQuery
    /\ dblp_url = Url1
    /\ soup = EmptyDoc
    /\ main_author = None
    /\ graph = EmptyGraph
    /\ calls = <<>>
    /\ stderr = <<>>
    /\ stdout = <<>>
    /\ status = -1
    /\ artifact = None

\* The start of cli, after the arguments are parsed.
InitCli ==
    /\ pc = "start"
    /\ query \in Queries
    /\ dblp_url = None
    /\ soup = EmptyDoc
    /\ main_author = None
    /\ graph = EmptyGraph
    /\ calls = <<>>
    /\ stderr = <<>>
    /\ stdout = <<>>
    /\ status = -1
    /\ artifact = None

\* One instance, built once and rendered.
Next == ExtractGraph(Pages) \/ Show
Spec == Init /\ [][Next]_vars

\* A run of cli.
NextCli == Resolve \/ Construct \/ ExtractGraph(FewPages) \/ Show
SpecCli == InitCli /\ [][NextCli]_vars

\* One instance, built more than once.
NextReuse == ExtractGraph(FewPages) \/ ExtractGraphAgain(FewPages) \/ Show
SpecReuse == Init /\ [][NextReuse]_vars

\* One instance, built once from a page of many papers.
NextColor == ExtractGraph(ColorPages) \/ Show
SpecColor == Init /\ [][NextColor]_vars

----------------------------------------------------------------------------
(* Properties *)

Built == pc \in {"extracted", "done"}

Range(f) == {f[i] : i \in DOMAIN f}

\* The publication records of the page last parsed: the author names of each entry.
Records == [i \in 1..Len(soup.items) |-> Authors(soup.items[i])]

NamesInRecords == UNION {Range(Records[i]) : i \in 1..Len(Records)}

\* The number of records that list every name of the set S.
RecordsWith(S) == Cardinality({i \in 1..Len(Records) : S \subseteq Range(Records[i])})

Perms(n) == {f \in [1..n -> 1..n] : \A i, j \in 1..n : f[i] = f[j] => i = j}
Permute(s, f) == [i \in 1..Len(s) |-> s[f[i]]]

\* C1: after a build, every author listed in at least one record has a node, every
\* node is such an author, and the node's paper count (tooltip count, and size
\* 10 + 2 * count) is the number of records that list the name.
C1_PaperCountIsRecordCount ==
    Built =>
        /\ NamesInRecords = DOMAIN graph.node
        /\ \A n \in DOMAIN graph.node :
             /\ graph.node[n].title.count = RecordsWith({n})
             /\ graph.node[n].size = 10 + 2 * RecordsWith({n})

\* C2: after a build, two different authors listed together in k >= 1 records are
\* joined by an edge of weight k, and two authors never listed together by none.
C2_WeightIsCooccurrenceCount ==
    Built =>
        \A a, b \in NamesInRecords \cup DOMAIN graph.node :
            a # b =>
                IF RecordsWith({a, b}) >= 1
                THEN /\ {a, b} \in DOMAIN graph.edge
                     /\ graph.edge[{a, b}].weight = RecordsWith({a, b})
                ELSE {a, b} \notin DOMAIN graph.edge

\* C3: the built graph has no self-loop: every edge joins two different authors.
C3_NoSelfLoop ==
    Built => \A e \in DOMAIN graph.edge : Cardinality(e) = 2

\* C4: the built graph is the one a fresh build gives for every reordering of the
\* records and for every reordering of the authors inside one record, and building
\* again from the same page leaves it as it is.
C4_OrderIndependent ==
    Built =>
        /\ \A f \in Perms(Len(soup.items)) :
             BuildGraph(EmptyGraph, [soup EXCEPT !.items = Permute(soup.items, f)]) = graph
        /\ \A i \in 1..Len(soup.items) : \A f \in Perms(Len(soup.items[i])) :
             BuildGraph(EmptyGraph, [soup EXCEPT !.items[i] = Permute(soup.items[i], f)]) = graph
        /\ BuildGraph(graph, soup) = graph

\* C4 witness: two different records were built, one pair was counted more than once.
C4_Witness ==
    /\ Built
    /\ Len(soup.items) >= 2
    /\ soup.items[1] # soup.items[2]
    /\ \E e \in DOMAIN graph.edge : Cardinality(e) = 2 /\ graph.edge[e].weight >= 2

PrimaryNodes == {n \in DOMAIN graph.node : graph.node[n].color = NodeRed}

C6_NoCarryOver ==
    Built => graph = BuildGraph(EmptyGraph, soup)

\* The state after the directory search has answered.
Searched == pc \in {"resolved", "constructed", "exit1"} /\ calls = <<"search">>

AuthorEntries == {i \in 1..Len(soup.items) : soup.items[i].cls = EntryAuthor}
FirstAuthorEntry == soup.items[CHOOSE i \in AuthorEntries : \A j \in AuthorEntries : i <= j]
PidLinks(links) == SelectSeq(links, IsPidLink)
PagePidLinks == PidLinks(Anchors(soup.items))

\* The profile links inside the author-entry items, in document order.
RECURSIVE AuthorEntryAnchors(_)
AuthorEntryAnchors(items) ==
    IF items = <<>> THEN <<>>
    ELSE (IF Head(items).cls = EntryAuthor THEN Head(items).links ELSE <<>>)
         \o AuthorEntryAnchors(Tail(items))

AuthorEntryPidLinks == PidLinks(AuthorEntryAnchors(soup.items))

\* C7 as stated: when an author-entry item of the page holds a profile link, the
\* result is the first such link; only when there is none is it the first profile
\* link anywhere on the page; not-found exactly when the page has neither.
C7_AuthorEntryFirst ==
    Searched =>
        /\ AuthorEntryPidLinks # <<>> => dblp_url = Head(AuthorEntryPidLinks).href
        /\ (AuthorEntryPidLinks = <<>> /\ PagePidLinks # <<>>) =>
             dblp_url = Head(PagePidLinks).href
        /\ (pc = "exit1") <=> (AuthorEntryPidLinks = <<>> /\ PagePidLinks = <<>>)

\* The first author-entry item's first anchor with an href is a profile link.
Preferred ==
    /\ AuthorEntries # {}
    /\ LET a == SelectSeq(FirstAuthorEntry.links, HasHref)
       IN a # <<>> /\ Contains(Head(a).href, Pid)

\* C7 amended: the result is the first href of the first author-entry item when
\* that href contains /pid/; otherwise the first link of the page whose href
\* contains /pid/; not-found exactly when no link of the page contains /pid/.
C7_FirstLinkOfAuthorEntryElseAnyPid ==
    Searched =>
        /\ Preferred =>
             dblp_url = Head(SelectSeq(FirstAuthorEntry.links, HasHref)).href
        /\ (~Preferred /\ PagePidLinks # <<>>) => dblp_url = Head(PagePidLinks).href
        /\ (pc = "exit1") <=> (PagePidLinks = <<>>)
        /\ (pc = "exit1") => dblp_url = None

\* C7 witness: the page has an author-entry item, and the fallback link was returned.
C7_Witness ==
    /\ Searched
    /\ AuthorEntries # {}
    /\ ~Preferred
    /\ pc = "resolved"

IsPrefix(s, t) == Len(s) <= Len(t) /\ SubSeq(t, 1, Len(s)) = s

\* C8: a run that found no locator has exit status 1, has printed the diagnostic
\* with the query, and has fetched, built and rendered nothing; every run that
\* went on has a locator, and search, fetch, build, render happen in that order.
C8_NotFoundStops ==
    /\ pc = "exit1" =>
         /\ status = 1
         /\ stderr = << <<"Could not find a DBLP profile for ", query>> >>
         /\ calls = <<"search">>
         /\ graph = EmptyGraph
         /\ artifact = None
         /\ stdout = <<>>
    /\ pc \in {"resolved", "constructed", "extracted", "done"} =>
         dblp_url # None /\ dblp_url # <<>>
    /\ \/ IsPrefix(calls, <<"search", "fetch", "build", "render">>)
       \/ IsPrefix(calls, <<"fetch", "build", "render">>)

\* C8 witness: a run ended by the not-found exit.
C8_Witness == pc = "exit1" /\ soup.items # <<>>

NumSearches == Cardinality({i \in 1..Len(calls) : calls[i] = "search"})

Abs(x) == IF x < 0 THEN -x ELSE x
Min(x, y) == IF x < y THEN x ELSE y

\* C10: every edge has weight >= 1; each channel of its colour is the base channel
\* (139, 164, 218) times 1 - 0.7 * min(weight / 10, 1), rounded; edges of equal
\* weight have equal colours; a heavier edge has no lighter channel; every edge of
\* weight >= 10 has the colour #2a3141.
C10_EdgeColor ==
    Built =>
        \A e \in DOMAIN graph.edge :
            LET w  == graph.edge[e].weight
                ch == Channels(graph.edge[e].color)
                base == <<139, 164, 218>>
            IN /\ w >= 1
               /\ \A i \in 1..3 : Abs(100 * ch[i] - base[i] * (100 - 7 * Min(w, 10))) <= 50
               /\ w >= 10 => graph.edge[e].color = <<"#", "2", "a", "3", "1", "4", "1">>
               /\ \A e2 \in DOMAIN graph.edge :
                    LET w2  == graph.edge[e2].weight
                        ch2 == Channels(graph.edge[e2].color)
                    IN /\ w = w2 => graph.edge[e].color = graph.edge[e2].color
                       /\ w <= w2 => \A i \in 1..3 : ch[i] >= ch2[i]

\* C10 witness: an edge of weight above 10 next to an edge of weight 1.
C10_Witness ==
    /\ Built
    /\ \E e, e2 \in DOMAIN graph.edge :
         graph.edge[e].weight > 10 /\ graph.edge[e2].weight = 1

====
